---- MODULE Spec2Model ----
(***************************************************************************)
(* State machine of the App component of src/index.tsx: the generation     *)
(* cycle (handleGenerate), the speech controller (handleListen and the     *)
(* utterance notifications) and title derivation (formatTitle).            *)
(***************************************************************************)
EXTENDS Integers, Sequences, FiniteSets, TLC

VARIABLES
    scriptContent,      \* useState('') : the idea, a sequence of characters
    selectedPlatforms,  \* useState(['Instagram']) : sequence of platform names
    generatedSections,  \* useState(null) : the exposed document slot
    isLoading,          \* useState(false)
    error,              \* useState(null) : the user-visible message
    speakingKey,        \* useState(null) : key marked speaking
    synthQueue,         \* window.speechSynthesis utterance queue, head is playing
    events,             \* utterance notifications queued by the platform
    inflight,           \* provider requests awaiting their reply
    lastOp,             \* history: the handler that ran last, with its inputs
    titleKey,           \* formatTitle: the argument
    titleOut,           \* formatTitle: the returned title
    titlePhase,         \* formatTitle: "in" before the call, "out" after
    copiedKey,          \* useState(null) : key whose copy button reads "Copied!"
    copyTimers,         \* pending setTimeout callbacks of handleCopy
    isShareSupported,   \* useState(false), set on mount when navigator.share exists
    sharePending,       \* navigator.share calls awaiting their result
    voices,             \* useState([]) : the voices loaded from the platform
    selectedVoiceURI,   \* useState(undefined)
    renderDoc,          \* renderers: the document handed in
    renderOut,          \* renderers: what was produced
    renderPhase,        \* renderers: op is "in" before the call, then the renderer
    pdfLines,           \* handleExportPdf: number of wrapped lines
    pdfIndex,           \* handleExportPdf: lines emitted so far
    y,                  \* handleExportPdf: the vertical cursor
    pdfPages,           \* handleExportPdf: pages of the document
    pdfTrace,           \* handleExportPdf: history of the last emitted line
    promptIn,           \* prompt construction: the form values
    promptOut,          \* prompt construction: the prompt text
    promptPhase         \* prompt construction: "in" before, "out" after

vars == <<scriptContent, selectedPlatforms, generatedSections, isLoading, error,
          speakingKey, synthQueue, events, inflight, lastOp,
          titleKey, titleOut, titlePhase,
          copiedKey, copyTimers, isShareSupported, sharePending, voices,
          selectedVoiceURI,
          renderDoc, renderOut, renderPhase,
          pdfLines, pdfIndex, y, pdfPages, pdfTrace,
          promptIn, promptOut, promptPhase>>

appVars == <<scriptContent, selectedPlatforms, generatedSections, isLoading, error,
             speakingKey, synthQueue, events, inflight, lastOp>>

titleVars == <<titleKey, titleOut, titlePhase>>

copyVars == <<copiedKey, copyTimers>>

shareVars == <<isShareSupported, sharePending>>

voiceVars == <<voices, selectedVoiceURI>>

uiVars == <<copyVars, shareVars, voiceVars>>

renderVars == <<renderDoc, renderOut, renderPhase>>

pdfVars == <<pdfLines, pdfIndex, y, pdfPages, pdfTrace>>

promptVars == <<promptIn, promptOut, promptPhase>>

\* the variables of the pure-function specifications
pureVars == <<titleVars, renderVars, pdfVars, promptVars>>

----------------------------------------------------------------------------
(* Bounds *)

MaxMissing == 1      \* most schema keys a reply object may leave out
MaxEvents == 1       \* most utterance notifications pending at once
MaxKeyLen == 3       \* longest synthetic key given to formatTitle
MaxItems == 2        \* longest shot or B-roll list of a rendered document
MaxLines == 80       \* most wrapped lines handed to the PDF export
MaxWordCountLen == 3 \* longest text of the word-count field
MaxTimers == 1       \* most copy timeouts pending at once
MaxShares == 1       \* most share calls awaiting their result

----------------------------------------------------------------------------
(* Values *)

Null == "<null>"                 \* JavaScript null / undefined for string slots
NullDoc == [t |-> "null"]        \* generatedSections === null

platforms == <<"Instagram", "YouTube", "Facebook", "TikTok", "LinkedIn", "Website">>

SchemaKeys == <<"hook", "introduction", "mainContent", "callToAction",
                "visualIdeas", "hashtags">>

Sentinel == "CONTENT_VIOLATION"

IdeaMsg == "Please enter a content idea first."
PlatformMsg == "Please select at least one target platform."
SafetyMsg == "The model did not return a script. This might be due to a content safety filter. Please try modifying your request."
PolicyMsg == "Sorry, we are not able to provide this type of information."
ParseMsg == "The generated script was not in the expected format. Please try again."
UnknownMsg == "An unknown error occurred."
TtsMsg == "Text-to-speech failed. Your browser might not support the selected voice."

Range(s) == {s[i] : i \in 1..Len(s)}

SeqsUpTo(S, n) == UNION {[1..m -> S] : m \in 0..n}

----------------------------------------------------------------------------
(* String.prototype.trim on a sequence of characters *)

IsSpace(c) == c = " "

RECURSIVE TrimStart(_)
TrimStart(s) ==
    IF s = <<>> THEN <<>>
    ELSE IF IsSpace(Head(s)) THEN TrimStart(Tail(s))
    ELSE s

RECURSIVE TrimEnd(_)
TrimEnd(s) ==
    IF s = <<>> THEN <<>>
    ELSE IF IsSpace(s[Len(s)]) THEN TrimEnd(SubSeq(s, 1, Len(s) - 1))
    ELSE s

Trim(s) == TrimEnd(TrimStart(s))

----------------------------------------------------------------------------
(* Section values and the reply payload text *)

StrVal(x) == [t |-> "str", s |-> x]

VisVal(shots, rolls) == [t |-> "vis", shotSuggestions |-> shots, bRoll |-> rolls]

Undefined == [t |-> "undefined"]

\* A string held by a document is a sequence of pieces: single characters
\* such as "\n", and words that no operation looks into.
Text(word) == <<word>>

\* the value a reply gives to a key: populated or left empty
FieldValue(k, hookVal, filled) ==
    IF k = "hook" THEN StrVal(Text(hookVal))
    ELSE IF k = "visualIdeas"
         THEN (IF filled THEN VisVal(<<Text("wide shot")>>, <<Text("clouds")>>)
               ELSE VisVal(<<>>, <<>>))
    ELSE StrVal(IF filled THEN Text("body") ELSE <<>>)

LBrace == [tok |-> "{"]
RBrace == [tok |-> "}"]
NullTok == [tok |-> "null"]
NumTok == [tok |-> "5"]
ProseTok == [tok |-> "Sorry"]
Member(k, v) == [tok |-> "member", key |-> k, val |-> v]

RemoveKeys(order, S) == SelectSeq(order, LAMBDA k : k \notin S)

\* the key orders a reply object is written in: the declared order with at
\* most MaxMissing keys left out, and one full reply in another order
ReplyOrders ==
    {RemoveKeys(SchemaKeys, S) :
        S \in {T \in SUBSET Range(SchemaKeys) : Cardinality(T) <= MaxMissing}}
    \cup {<<"hashtags", "hook", "introduction", "mainContent", "callToAction",
            "visualIdeas">>}

HookValues == {Sentinel, "Try this!"}

Members(order, hookVal, filled) ==
    [i \in 1..Len(order) |-> Member(order[i], FieldValue(order[i], hookVal, filled))]

ObjectText(order, hookVal, filled) ==
    <<LBrace>> \o Members(order, hookVal, filled) \o <<RBrace>>

\* a reply cut off before its closing brace
TruncatedText(order, hookVal, filled) ==
    <<LBrace>> \o Members(order, hookVal, filled)

\* a reply that writes the hook twice; the later member is the sentinel
DuplicateHookText ==
    <<LBrace, Member("hook", StrVal(Text("Try this!")))>>
    \o Members(Tail(SchemaKeys), "Try this!", TRUE)
    \o <<Member("hook", StrVal(Text(Sentinel))), RBrace>>

PayloadTexts ==
    {ObjectText(o, h, TRUE) : o \in ReplyOrders, h \in HookValues}
    \cup {ObjectText(o, Sentinel, FALSE) : o \in ReplyOrders}
    \cup {ObjectText(SchemaKeys, "Try this!", FALSE)}
    \cup {TruncatedText(SchemaKeys, h, f) : h \in HookValues, f \in BOOLEAN}
    \cup {DuplicateHookText, <<NullTok>>, <<NumTok>>, <<ProseTok>>,
          <<LBrace, RBrace>>, <<RBrace>>}

----------------------------------------------------------------------------
(* JSON.parse *)

HasKey(entries, k) == \E i \in 1..Len(entries) : entries[i].key = k

\* assignment obj[k] = v : a repeated key keeps its place and takes the new value
PutEntry(entries, k, v) ==
    IF HasKey(entries, k)
    THEN [i \in 1..Len(entries) |->
            IF entries[i].key = k THEN [key |-> k, val |-> v] ELSE entries[i]]
    ELSE Append(entries, [key |-> k, val |-> v])

RECURSIVE BuildEntries(_, _)
BuildEntries(members, acc) ==
    IF members = <<>> THEN acc
    ELSE BuildEntries(Tail(members),
                      PutEntry(acc, Head(members).key, Head(members).val))

ObjDoc(entries) == [t |-> "obj", entries |-> entries]
NumDoc == [t |-> "num"]

\* variant: a reply cut off before its closing brace is taken as an object
WellFormedObjectLenient(text) ==
    /\ Len(text) >= 2
    /\ text[1] = LBrace
    /\ \A i \in 2..(Len(text) - 1) : text[i].tok = "member"

WellFormedObject(text) ==
    /\ Len(text) >= 2
    /\ text[1] = LBrace
    /\ text[Len(text)] = RBrace
    /\ \A i \in 2..(Len(text) - 1) : text[i].tok = "member"

\* ok = FALSE stands for the SyntaxError JSON.parse throws
JSONParse(text) ==
    IF text = <<NullTok>> THEN [ok |-> TRUE, value |-> NullDoc]
    ELSE IF text = <<NumTok>> THEN [ok |-> TRUE, value |-> NumDoc]
    ELSE IF WellFormedObject(text)
         THEN [ok |-> TRUE,
               value |-> ObjDoc(BuildEntries(SubSeq(text, 2, Len(text) - 1), <<>>))]
    ELSE [ok |-> FALSE, value |-> NullDoc]

\* jsonResponse.hook on a non-null parsed value
HookOf(v) ==
    IF v.t = "obj" /\ HasKey(v.entries, "hook")
    THEN (CHOOSE e \in Range(v.entries) : e.key = "hook").val
    ELSE Undefined

DocKeys(d) == IF d.t = "obj" THEN {e.key : e \in Range(d.entries)} ELSE {}

\* JavaScript truthiness of the document slot
DocExposed(d) == d # NullDoc

----------------------------------------------------------------------------
(* The provider boundary: what the awaited generateContent call can do *)

ExceptionMessages == {"", "quota exceeded"}

Reply(kind, text, isError, message) ==
    [kind |-> kind, text |-> text, isError |-> isError, message |-> message]

Replies ==
    {Reply("throw", <<>>, TRUE, m) : m \in ExceptionMessages}
    \cup {Reply("throw", <<>>, FALSE, Null)}      \* a rejection with a non-Error
    \cup {Reply("noResponse", <<>>, FALSE, Null)} \* response is undefined
    \cup {Reply("noText", <<>>, FALSE, Null)}     \* response.text is undefined
    \cup {Reply("text", t, FALSE, Null) : t \in PayloadTexts \cup {<<>>}}

----------------------------------------------------------------------------
(* handleGenerate *)

\* variant: the idea is tested without trimming
IsBlankNoTrim(idea) == idea = <<>>

\* !scriptContent.trim()
IsBlank(idea) == Trim(idea) = <<>>

\* selectedPlatforms.length === 0
NoPlatform(sel) == Len(sel) = 0

\* the request handed to ai.models.generateContent
Request(idea, sel) == [idea |-> idea, platforms |-> sel]

\* variant: the previous document stays in its slot during the cycle
StartCycleKeepsDoc(st) == [st EXCEPT !.isLoading = TRUE, !.error = Null]

\* the three setters that open a cycle
StartCycle(st) ==
    [st EXCEPT !.isLoading = TRUE, !.error = Null, !.generatedSections = NullDoc]

\* variant: only an absent reply or text counts, an empty text does not
ResponseEmptyAbsentOnly(reply) ==
    \/ reply.kind = "noResponse"
    \/ reply.kind = "noText"

\* !response?.text
ResponseEmpty(reply) ==
    \/ reply.kind = "noResponse"
    \/ reply.kind = "noText"
    \/ reply.kind = "text" /\ reply.text = <<>>

EmptyBranch(st) == [st EXCEPT !.error = SafetyMsg]

\* variant: the sentinel counts only when every other field is empty
IsViolationWhenOthersEmpty(v) ==
    /\ HookOf(v) = StrVal(Text(Sentinel))
    /\ \A e \in Range(v.entries) :
          e.key = "hook" \/ e.val \in {StrVal(<<>>), VisVal(<<>>, <<>>)}

\* jsonResponse.hook === 'CONTENT_VIOLATION'
IsViolation(v) == HookOf(v) = StrVal(Text(Sentinel))

PolicyBranch(st) == [st EXCEPT !.error = PolicyMsg, !.generatedSections = NullDoc]

\* setGeneratedSections(jsonResponse)
StoreBranch(st, v) == [st EXCEPT !.generatedSections = v]

\* catch (parseError)
CatchParse(st) == [st EXCEPT !.error = ParseMsg]

\* the inner try block; reading .hook of null throws a TypeError
InnerTry(st, text) ==
    LET p == JSONParse(text) IN
    IF ~p.ok THEN CatchParse(st)
    ELSE IF p.value = NullDoc THEN CatchParse(st)
    ELSE IF IsViolation(p.value) THEN PolicyBranch(st)
    ELSE StoreBranch(st, p.value)

\* catch (e)
CatchApi(st, reply) ==
    [st EXCEPT !.error = IF reply.isError THEN reply.message ELSE UnknownMsg]

\* variant: loading is cleared at the end of the try block, not in finally
FinallyOnSuccessOnly(st) ==
    IF st.error = Null THEN [st EXCEPT !.isLoading = FALSE] ELSE st

\* finally
Finally(st) == [st EXCEPT !.isLoading = FALSE]

\* everything handleGenerate does once the awaited call settles
Resume(st, reply) ==
    Finally(IF reply.kind = "throw" THEN CatchApi(st, reply)
            ELSE IF ResponseEmpty(reply) THEN EmptyBranch(st)
            ELSE InnerTry(st, reply.text))

GenState == [error |-> error, generatedSections |-> generatedSections,
             isLoading |-> isLoading]

\* variant: the button stays live during a cycle
GenerateNeverDisabled(loading) == FALSE

\* <button ... disabled={isLoading}> : no click reaches the handler
GenerateDisabled(loading) == loading

\* click on the generate button
handleGenerate ==
    /\ ~GenerateDisabled(isLoading)
    /\ IF IsBlank(scriptContent)
       THEN /\ error' = IdeaMsg
            /\ lastOp' = [op |-> "generate", sent |-> FALSE]
            /\ UNCHANGED <<generatedSections, isLoading, inflight>>
       ELSE IF NoPlatform(selectedPlatforms)
       THEN /\ error' = PlatformMsg
            /\ lastOp' = [op |-> "generate", sent |-> FALSE]
            /\ UNCHANGED <<generatedSections, isLoading, inflight>>
       ELSE LET st == StartCycle(GenState) IN
            /\ error' = st.error
            /\ generatedSections' = st.generatedSections
            /\ isLoading' = st.isLoading
            /\ inflight' = Append(inflight, Request(scriptContent, selectedPlatforms))
            /\ lastOp' = [op |-> "generate", sent |-> TRUE,
                          had |-> DocExposed(generatedSections)]
    /\ UNCHANGED <<scriptContent, selectedPlatforms, speakingKey, synthQueue,
                   events, uiVars, pureVars>>

\* the awaited call settles and the rest of handleGenerate runs
ProviderSettles(reply) ==
    /\ inflight # <<>>
    /\ LET st == Resume(GenState, reply) IN
        /\ error' = st.error
        /\ generatedSections' = st.generatedSections
        /\ isLoading' = st.isLoading
    /\ inflight' = Tail(inflight)
    /\ lastOp' = [op |-> "reply", reply |-> reply]
    /\ UNCHANGED <<scriptContent, selectedPlatforms, speakingKey, synthQueue,
                   events, uiVars, pureVars>>

----------------------------------------------------------------------------
(* The form inputs; all are disabled while loading *)

\* the texts typed into the textarea: empty, whitespace only, plain, padded
Ideas == {<<>>, <<" ">>, <<"a">>, <<" ", "a", " ">>}

\* the platform buttons the user presses
PlatformChoices == {"Instagram"}

SetScriptContent(v) ==
    /\ ~isLoading
    /\ scriptContent' = v
    /\ lastOp' = [op |-> "edit"]
    /\ UNCHANGED <<selectedPlatforms, generatedSections, isLoading, error,
                   speakingKey, synthQueue, events, inflight, uiVars,
                   pureVars>>

TogglePlatformResult(prev, platform) ==
    IF platform \in Range(prev)
    THEN SelectSeq(prev, LAMBDA q : q # platform)
    ELSE Append(prev, platform)

handlePlatformToggle(platform) ==
    /\ ~isLoading
    /\ selectedPlatforms' = TogglePlatformResult(selectedPlatforms, platform)
    /\ lastOp' = [op |-> "edit"]
    /\ UNCHANGED <<scriptContent, generatedSections, isLoading, error,
                   speakingKey, synthQueue, events, inflight, uiVars,
                   pureVars>>

----------------------------------------------------------------------------
(* handleListen and window.speechSynthesis *)

NotifyKinds == {"end", "error"}

\* voices.find(v => v.voiceURI === selectedVoiceURI) : the voice given to a
\* new utterance, none when the selection is not among the loaded voices
BoundVoice ==
    IF \E i \in 1..Len(voices) : voices[i].voiceURI = selectedVoiceURI
    THEN selectedVoiceURI
    ELSE Null

Utterance(key) == [key |-> key, voice |-> BoundVoice]

Notification(kind, key) == [kind |-> kind, key |-> key]

\* variant: the cancel call is missing
SynthCancelNoop(q) == q

\* speechSynthesis.cancel() : the queue after the call
SynthCancel(q) == <<>>

\* speechSynthesis.speak(u) : the utterance joins the queue
SynthSpeak(q, u) == Append(q, u)

\* What the platform queues for the utterances a cancel removed.  Browsers
\* differ: an error notification, an end notification, or none at all.
RECURSIVE CancelNotifications(_, _)
CancelNotifications(q, ev) ==
    IF q = <<>> THEN {ev}
    ELSE UNION {CancelNotifications(Tail(q), e2) :
                  e2 \in {ev} \cup {Append(ev, Notification(k, Head(q).key)) :
                                      k \in NotifyKinds}}

SpeechState == [speakingKey |-> speakingKey, synthQueue |-> synthQueue]

\* the branch taken when the key is already the speaking key
ToggleOff(st) ==
    [st EXCEPT !.synthQueue = SynthCancel(st.synthQueue), !.speakingKey = Null]

\* the branch that starts a new utterance
StartUtterance(st, key) ==
    [st EXCEPT !.synthQueue = SynthSpeak(SynthCancel(st.synthQueue), Utterance(key)),
               !.speakingKey = key]

\* variant: the toggle-off branch lacks its return and falls through
ListenEffectFallThrough(st, key) ==
    StartUtterance(IF st.speakingKey = key THEN ToggleOff(st) ELSE st, key)

ListenEffect(st, key) ==
    IF st.speakingKey = key THEN ToggleOff(st) ELSE StartUtterance(st, key)

\* the listen buttons are rendered per entry of the exposed document
ListenKeys == DocKeys(generatedSections)

\* the listen buttons the user presses
ListenChoices == {"hook", "introduction"}

handleListen(key) ==
    /\ key \in ListenKeys
    /\ LET st == ListenEffect(SpeechState, key) IN
        /\ speakingKey' = st.speakingKey
        /\ synthQueue' = st.synthQueue
    /\ \E ev \in CancelNotifications(synthQueue, events) :
        /\ Len(ev) <= MaxEvents
        /\ events' = ev
    /\ lastOp' = [op |-> "listen", key |-> key, was |-> speakingKey]
    /\ UNCHANGED <<scriptContent, selectedPlatforms, generatedSections, isLoading,
                   error, inflight, uiVars, pureVars>>

\* the utterance at the head of the queue finishes or fails in the engine
UtteranceSettles(kind) ==
    /\ synthQueue # <<>>
    /\ Len(events) < MaxEvents
    /\ synthQueue' = Tail(synthQueue)
    /\ events' = Append(events, Notification(kind, Head(synthQueue).key))
    /\ lastOp' = [op |-> "engine"]
    /\ UNCHANGED <<scriptContent, selectedPlatforms, generatedSections, isLoading,
                   error, speakingKey, inflight, uiVars, pureVars>>

NotifyState == [speakingKey |-> speakingKey, error |-> error]

\* utterance.onend
OnEnd(st) == [st EXCEPT !.speakingKey = Null]

\* variant: the error handler reports the failure but keeps the speaking key
OnErrorKeepsKey(st) == [st EXCEPT !.error = TtsMsg]

\* utterance.onerror
OnError(st) == [st EXCEPT !.speakingKey = Null, !.error = TtsMsg]

\* the platform delivers the oldest pending notification to its handler
Notify ==
    /\ events # <<>>
    /\ LET e == Head(events)
           st == IF e.kind = "end" THEN OnEnd(NotifyState) ELSE OnError(NotifyState)
       IN /\ speakingKey' = st.speakingKey
          /\ error' = st.error
          /\ lastOp' = [op |-> "notify", kind |-> e.kind, key |-> e.key]
    /\ events' = Tail(events)
    /\ UNCHANGED <<scriptContent, selectedPlatforms, generatedSections, isLoading,
                   synthQueue, inflight, uiVars, pureVars>>

----------------------------------------------------------------------------
(* formatTitle *)

Lower == <<"a", "b", "c", "d", "e", "f", "g", "h", "i", "j", "k", "l", "m",
           "n", "o", "p", "q", "r", "s", "t", "u", "v", "w", "x", "y", "z">>
Upper == <<"A", "B", "C", "D", "E", "F", "G", "H", "I", "J", "K", "L", "M",
           "N", "O", "P", "Q", "R", "S", "T", "U", "V", "W", "X", "Y", "Z">>

\* [A-Z]
IsUpper(c) == c \in Range(Upper)

ToUpperCase(c) ==
    IF c \in Range(Lower) THEN Upper[CHOOSE i \in 1..Len(Lower) : Lower[i] = c]
    ELSE c

\* .replace(/([A-Z])/g, ' $1')
RECURSIVE SpaceCapitals(_)
SpaceCapitals(s) ==
    IF s = <<>> THEN <<>>
    ELSE (IF IsUpper(Head(s)) THEN <<" ", Head(s)>> ELSE <<Head(s)>>)
         \o SpaceCapitals(Tail(s))

\* .replace(/^./, (str) => str.toUpperCase())
UpperFirst(s) ==
    IF s = <<>> THEN <<>> ELSE <<ToUpperCase(Head(s))>> \o Tail(s)

formatTitle(title) == UpperFirst(SpaceCapitals(title))

KeyChars == {"a", "b", "C", "D"}

KeyText(k) ==
    CASE k = "hook" -> <<"h", "o", "o", "k">>
      [] k = "introduction" ->
            <<"i", "n", "t", "r", "o", "d", "u", "c", "t", "i", "o", "n">>
      [] k = "mainContent" ->
            <<"m", "a", "i", "n", "C", "o", "n", "t", "e", "n", "t">>
      [] k = "callToAction" ->
            <<"c", "a", "l", "l", "T", "o", "A", "c", "t", "i", "o", "n">>
      [] k = "visualIdeas" ->
            <<"v", "i", "s", "u", "a", "l", "I", "d", "e", "a", "s">>
      [] k = "hashtags" -> <<"h", "a", "s", "h", "t", "a", "g", "s">>

TitleInputs ==
    (SeqsUpTo(KeyChars, MaxKeyLen) \ {<<>>}) \cup {KeyText(k) : k \in Range(SchemaKeys)}

ApplyFormatTitle ==
    /\ titlePhase = "in"
    /\ titleOut' = formatTitle(titleKey)
    /\ titlePhase' = "out"
    /\ UNCHANGED <<titleKey, appVars, uiVars, renderVars, pdfVars, promptVars>>

----------------------------------------------------------------------------
(* The renderers: getFullScriptText, the copy button's text, handleExportDocx *)

NL == "\n"

\* Array.prototype.join
RECURSIVE Join(_, _)
Join(parts, sep) ==
    IF parts = <<>> THEN <<>>
    ELSE IF Len(parts) = 1 THEN parts[1]
    ELSE parts[1] \o sep \o Join(Tail(parts), sep)

\* String.prototype.split('\n') : always at least one line
RECURSIVE SplitLines(_, _)
SplitLines(text, line) ==
    IF text = <<>> THEN <<line>>
    ELSE IF Head(text) = NL THEN <<line>> \o SplitLines(Tail(text), <<>>)
    ELSE SplitLines(Tail(text), Append(line, Head(text)))

\* Object.entries(generatedSections)
Entries(doc) == IF doc.t = "obj" THEN doc.entries ELSE <<>>

\* .map(s => `- ${s}`)
Dashed(items) == [i \in 1..Len(items) |-> <<"-", " ">> \o items[i]]

\* the block of one section in the whole-document text
SectionBlock(key, value) ==
    LET title == formatTitle(KeyText(key)) IN
    IF value.t = "str" THEN title \o <<NL>> \o value.s
    ELSE title \o <<NL>> \o Text("Shot Suggestions:") \o <<NL>>
         \o Join(Dashed(value.shotSuggestions), <<NL>>)
         \o <<NL, NL>> \o Text("B-Roll:") \o <<NL>>
         \o Join(Dashed(value.bRoll), <<NL>>)

\* variant: the sections are separated by a single line break
BlockSeparatorSingle == <<NL>>

\* .join('\n\n')
BlockSeparator == <<NL, NL>>

getFullScriptText(doc, forCopy) ==
    IF ~DocExposed(doc) THEN <<>>
    ELSE Join([i \in 1..Len(Entries(doc)) |->
                  SectionBlock(Entries(doc)[i].key, Entries(doc)[i].val)],
              BlockSeparator)

\* the text the copy button of one section hands to handleCopy
CopyText(value) ==
    IF value.t = "str" THEN value.s
    ELSE Text("Shot Suggestions:") \o <<NL>>
         \o Join(value.shotSuggestions, <<NL>>)
         \o <<NL, NL>> \o Text("B-Roll:") \o <<NL>>
         \o Join(value.bRoll, <<NL>>)

Para(kind, text) == [kind |-> kind, text |-> text]

\* variant: the body of a Text section becomes a single paragraph
BodyParagraphsWhole(body) == <<Para("text", body)>>

\* value.split('\n').forEach(line => paragraphs.push(...))
BodyParagraphs(body) ==
    LET lines == SplitLines(body, <<>>) IN
    [i \in 1..Len(lines) |-> Para("text", lines[i])]

Bullets(items) == [i \in 1..Len(items) |-> Para("bullet", items[i])]

\* the paragraphs handleExportDocx pushes for one section
SectionParagraphs(key, value) ==
    <<Para("heading", formatTitle(KeyText(key)))>>
    \o (IF value.t = "str" THEN BodyParagraphs(value.s)
        ELSE <<Para("label", Text("Shot Suggestions"))>>
             \o Bullets(value.shotSuggestions)
             \o <<Para("label", Text("B-Roll"))>>
             \o Bullets(value.bRoll))
    \o <<Para("text", <<>>)>>

RECURSIVE Flatten(_)
Flatten(seqs) == IF seqs = <<>> THEN <<>> ELSE Head(seqs) \o Flatten(Tail(seqs))

DocxParagraphs(doc) ==
    Flatten([i \in 1..Len(Entries(doc)) |->
                SectionParagraphs(Entries(doc)[i].key, Entries(doc)[i].val)])

ValueOf(doc, key) == (CHOOSE e \in Range(Entries(doc)) : e.key = key).val

\* the documents handed to the renderers
RenderOrders ==
    {<<>>, SchemaKeys, <<"visualIdeas">>, <<"hook">>,
     <<"hashtags", "visualIdeas", "hook">>,
     <<"hashtags", "callToAction", "visualIdeas", "mainContent", "introduction",
       "hook">>}

RenderBodies ==
    {<<>>, Text("body"), <<"one", NL, "two">>, <<"one", NL, NL, "two", NL>>}

RenderLists == SeqsUpTo({Text("wide shot"), Text("clouds")}, MaxItems)

RenderValue(k, body, shots, rolls) ==
    IF k = "visualIdeas" THEN VisVal(shots, rolls) ELSE StrVal(body)

RenderDocs ==
    {ObjDoc([i \in 1..Len(o) |-> [key |-> o[i], val |-> RenderValue(o[i], b, l1, l2)]]) :
        o \in RenderOrders, b \in RenderBodies, l1 \in RenderLists, l2 \in RenderLists}
    \cup {NumDoc}

ApplyFullText ==
    /\ renderPhase.op = "in"
    /\ renderOut' = getFullScriptText(renderDoc, FALSE)
    /\ renderPhase' = [op |-> "text"]
    /\ UNCHANGED <<renderDoc, appVars, uiVars, titleVars, pdfVars, promptVars>>

ApplyDocx ==
    /\ renderPhase.op = "in"
    /\ DocExposed(renderDoc)
    /\ renderOut' = DocxParagraphs(renderDoc)
    /\ renderPhase' = [op |-> "docx"]
    /\ UNCHANGED <<renderDoc, appVars, uiVars, titleVars, pdfVars, promptVars>>

ApplyCopyText(key) ==
    /\ renderPhase.op = "in"
    /\ key \in DocKeys(renderDoc)
    /\ renderOut' = CopyText(ValueOf(renderDoc, key))
    /\ renderPhase' = [op |-> "copy", key |-> key]
    /\ UNCHANGED <<renderDoc, appVars, uiVars, titleVars, pdfVars, promptVars>>

----------------------------------------------------------------------------
(* handleExportPdf: the pagination loop over the wrapped lines *)

\* doc.internal.pageSize.height of new jsPDF(): an A4 page in millimetres
PageHeight == 297

\* const margin = 15
Margin == 15

\* let y = 15
CursorStart == 15

\* y += 7
LineHeight == 7

\* variant: the page is broken only at its lower edge
NeedsNewPageNoMargin(cursor) == cursor > PageHeight

\* if (y > pageHeight - margin)
NeedsNewPage(cursor) == cursor > PageHeight - Margin

\* variant: the cursor keeps running down on the new page
EmitPositionNoReset(cursor) == cursor

\* { doc.addPage(); y = margin; } : where doc.text(line, margin, y) writes
EmitPosition(cursor) == IF NeedsNewPage(cursor) THEN Margin ELSE cursor

\* one iteration of textLines.forEach
PdfEmitLine ==
    /\ pdfTrace.op \in {"start", "line"}
    /\ pdfIndex < pdfLines
    /\ pdfIndex' = pdfIndex + 1
    /\ pdfPages' = IF NeedsNewPage(y) THEN pdfPages + 1 ELSE pdfPages
    /\ pdfTrace' = [op |-> "line", at |-> EmitPosition(y)]
    /\ y' = EmitPosition(y) + LineHeight
    /\ UNCHANGED <<pdfLines, appVars, uiVars, titleVars, renderVars, promptVars>>

\* doc.save('script.pdf') once every line is written
PdfSave ==
    /\ pdfTrace.op \in {"start", "line"}
    /\ pdfIndex = pdfLines
    /\ pdfTrace' = [op |-> "save"]
    /\ UNCHANGED <<pdfLines, pdfIndex, y, pdfPages, appVars, uiVars, titleVars,
                   renderVars, promptVars>>

----------------------------------------------------------------------------
(* handleGenerate: the prompt text *)

Digits == <<"0", "1", "2", "3", "4", "5", "6", "7", "8", "9">>

IsDigit(c) == c \in Range(Digits)

DigitValue(c) == (CHOOSE i \in 1..10 : Digits[i] = c) - 1

\* the longest run of digits at the head of a string
RECURSIVE DigitRun(_)
DigitRun(s) ==
    IF s = <<>> \/ ~IsDigit(Head(s)) THEN <<>>
    ELSE <<Head(s)>> \o DigitRun(Tail(s))

RECURSIVE DecimalValue(_, _)
DecimalValue(ds, acc) ==
    IF ds = <<>> THEN acc
    ELSE DecimalValue(Tail(ds), 10 * acc + DigitValue(Head(ds)))

\* parseInt(string): leading white space and one sign are skipped, the digits
\* that follow are read for as long as they last; no digit there gives NaN
parseInt(s) ==
    LET t == TrimStart(s)
        signed == t # <<>> /\ Head(t) \in {"-", "+"}
        run == DigitRun(IF signed THEN Tail(t) ELSE t)
        magnitude == DecimalValue(run, 0)
    IN IF run = <<>> THEN [nan |-> TRUE]
       ELSE [nan |-> FALSE,
             n |-> IF signed /\ Head(t) = "-" THEN 0 - magnitude ELSE magnitude]

\* wordCount && parseInt(wordCount) > 0 ; NaN > 0 is false
WordCountGiven(wc) == wc # <<>> /\ ~parseInt(wc).nan /\ parseInt(wc).n > 0

\* the prompt of lines 83-91 as a sequence of pieces
BuildPrompt(in) ==
    <<"Based on the following content idea, generate a script for a social media post tailored for the following platforms: ">>
    \o Join([i \in 1..Len(in.platforms) |-> Text(in.platforms[i])], <<",", " ">>)
    \o <<". Include a hook, introduction, main content, a call to action, detailed visual ideas (with specific shot suggestions and B-roll ideas), and relevant hashtags.",
         NL, NL, "Idea: ", "\"">>
    \o in.idea \o <<"\"">>
    \o (IF WordCountGiven(in.wordCount)
        THEN <<NL, NL, "The main content should be ", "approximately", " ">>
             \o in.wordCount \o <<" ", "words", ".">>
        ELSE <<>>)
    \o (IF Trim(in.advancedInstructions) # <<>>
        THEN <<NL, NL, "Advanced Instructions: ">> \o Trim(in.advancedInstructions)
        ELSE <<>>)

\* what <input type="number"> hands to setWordCount: the empty string, or a
\* number written as an optional minus sign, digits and an optional fraction
WordCountChars == {"0", "5", "-", "."}

IsNumberText(s) ==
    LET u == IF s # <<>> /\ Head(s) = "-" THEN Tail(s) ELSE s
        whole == DigitRun(u)
        rest == SubSeq(u, Len(whole) + 1, Len(u))
    IN \/ whole # <<>> /\ rest = <<>>
       \/ /\ rest # <<>>
          /\ Head(rest) = "."
          /\ Len(rest) >= 2
          /\ DigitRun(Tail(rest)) = Tail(rest)

WordCounts ==
    {<<>>} \cup {s \in SeqsUpTo(WordCountChars, MaxWordCountLen) : IsNumberText(s)}

\* the selections the platform buttons can leave when a request is built
PromptPlatforms == {<<"Instagram">>, <<"Instagram", "TikTok">>, <<"YouTube", "Instagram", "Facebook">>}

PromptInputs ==
    [idea : {v \in Ideas : ~IsBlank(v)},
     platforms : PromptPlatforms,
     wordCount : WordCounts,
     advancedInstructions : {<<>>, <<" ">>, <<" ", "funny">>}]

ApplyBuildPrompt ==
    /\ promptPhase = "in"
    /\ promptOut' = BuildPrompt(promptIn)
    /\ promptPhase' = "out"
    /\ UNCHANGED <<promptIn, appVars, uiVars, titleVars, renderVars, pdfVars>>

----------------------------------------------------------------------------
(* The controls of the results panel: copy, share, export, voice selection *)

ShareMsg == "Could not share the script."

\* the copy buttons the user presses
CopyChoices == {"hook", "visualIdeas"}

\* click on the copy button of a section
handleCopy(key) ==
    /\ key \in DocKeys(generatedSections)
    /\ copyTimers < MaxTimers
    /\ copiedKey' = key
    /\ copyTimers' = copyTimers + 1
    /\ lastOp' = [op |-> "copy", key |-> key,
                  text |-> CopyText(ValueOf(generatedSections, key))]
    /\ UNCHANGED <<scriptContent, selectedPlatforms, generatedSections, isLoading,
                   error, speakingKey, synthQueue, events, inflight, shareVars,
                   voiceVars, pureVars>>

\* setTimeout(() => setCopiedKey(null), 2000) fires
CopyTimeout ==
    /\ copyTimers > 0
    /\ copiedKey' = Null
    /\ copyTimers' = copyTimers - 1
    /\ lastOp' = [op |-> "copyTimeout"]
    /\ UNCHANGED <<scriptContent, selectedPlatforms, generatedSections, isLoading,
                   error, speakingKey, synthQueue, events, inflight, shareVars,
                   voiceVars, pureVars>>

\* click on the share button, up to the awaited navigator.share call
handleShare ==
    /\ DocExposed(generatedSections)
    /\ isShareSupported
    /\ sharePending < MaxShares
    /\ sharePending' = sharePending + 1
    /\ lastOp' = [op |-> "share", text |-> getFullScriptText(generatedSections, TRUE)]
    /\ UNCHANGED <<scriptContent, selectedPlatforms, generatedSections, isLoading,
                   error, speakingKey, synthQueue, events, inflight, copyVars,
                   isShareSupported, voiceVars, pureVars>>

\* variant: the catch block also stops the speech marker
ShareCatchClearsSpeech(st) == [st EXCEPT !.error = ShareMsg, !.speakingKey = Null]

\* catch (err) { setError("Could not share the script.") }
ShareCatch(st) == [st EXCEPT !.error = ShareMsg]

\* the share call resolves, or rejects and the catch block runs
ShareSettles(ok) ==
    /\ sharePending > 0
    /\ sharePending' = sharePending - 1
    /\ LET st == IF ok THEN NotifyState ELSE ShareCatch(NotifyState) IN
        /\ error' = st.error
        /\ speakingKey' = st.speakingKey
    /\ lastOp' = [op |-> "shareSettled", ok |-> ok]
    /\ UNCHANGED <<scriptContent, selectedPlatforms, generatedSections, isLoading,
                   synthQueue, events, inflight, copyVars, isShareSupported,
                   voiceVars, pureVars>>

\* click on the PDF button: the text handed to the pagination loop
handleExportPdf ==
    /\ DocExposed(generatedSections)
    /\ lastOp' = [op |-> "pdf", text |-> getFullScriptText(generatedSections, FALSE)]
    /\ UNCHANGED <<scriptContent, selectedPlatforms, generatedSections, isLoading,
                   error, speakingKey, synthQueue, events, inflight, uiVars,
                   pureVars>>

\* click on the DOCX button: the paragraphs packed into the file
handleExportDocx ==
    /\ DocExposed(generatedSections)
    /\ lastOp' = [op |-> "docx", paragraphs |-> DocxParagraphs(generatedSections)]
    /\ UNCHANGED <<scriptContent, selectedPlatforms, generatedSections, isLoading,
                   error, speakingKey, synthQueue, events, inflight, uiVars,
                   pureVars>>

Voice(uri, lang) == [voiceURI |-> uri, lang |-> lang]

\* what window.speechSynthesis.getVoices() can return
VoiceLists == {<<>>, <<Voice("de", "de-DE"), Voice("us", "en-US")>>}

\* availableVoices.find(v => v.lang === 'en-US'), else the first voice
DefaultVoice(avail) ==
    IF \E i \in 1..Len(avail) : avail[i].lang = "en-US"
    THEN avail[CHOOSE i \in 1..Len(avail) :
                  /\ avail[i].lang = "en-US"
                  /\ \A j \in 1..(i - 1) : avail[j].lang # "en-US"].voiceURI
    ELSE avail[1].voiceURI

\* loadVoices, on mount and on voiceschanged
loadVoices(avail) ==
    /\ IF Len(avail) > 0
       THEN /\ voices' = avail
            /\ selectedVoiceURI' = IF selectedVoiceURI = Null THEN DefaultVoice(avail)
                                   ELSE selectedVoiceURI
       ELSE UNCHANGED voiceVars
    /\ lastOp' = [op |-> "voices"]
    /\ UNCHANGED <<scriptContent, selectedPlatforms, generatedSections, isLoading,
                   error, speakingKey, synthQueue, events, inflight, copyVars,
                   shareVars, pureVars>>

\* onChange of the voice select, shown with the document once voices exist
SetSelectedVoice(uri) ==
    /\ DocExposed(generatedSections)
    /\ Len(voices) > 0
    /\ \E i \in 1..Len(voices) : voices[i].voiceURI = uri
    /\ selectedVoiceURI' = uri
    /\ lastOp' = [op |-> "voice"]
    /\ UNCHANGED <<scriptContent, selectedPlatforms, generatedSections, isLoading,
                   error, speakingKey, synthQueue, events, inflight, copyVars,
                   shareVars, voices, pureVars>>

----------------------------------------------------------------------------
(* Specifications *)

AppInit ==
    /\ scriptContent = <<>>
    /\ selectedPlatforms = <<"Instagram">>
    /\ generatedSections = NullDoc
    /\ isLoading = FALSE
    /\ error = Null
    /\ speakingKey = Null
    /\ synthQueue = <<>>
    /\ events = <<>>
    /\ inflight = <<>>
    /\ lastOp = [op |-> "init"]

\* the rest of the component's state on a platform without navigator.share
\* whose voices have not loaded
UiIdle ==
    /\ copiedKey = Null
    /\ copyTimers = 0
    /\ isShareSupported = FALSE
    /\ sharePending = 0
    /\ voices = <<>>
    /\ selectedVoiceURI = Null

TitleIdle ==
    /\ titleKey = <<>>
    /\ titleOut = <<>>
    /\ titlePhase = "idle"

RenderIdle ==
    /\ renderDoc = NullDoc
    /\ renderOut = <<>>
    /\ renderPhase = [op |-> "idle"]

PdfIdle ==
    /\ pdfLines = 0
    /\ pdfIndex = 0
    /\ y = 0
    /\ pdfPages = 0
    /\ pdfTrace = [op |-> "idle"]

PromptIdle ==
    /\ promptIn = [op |-> "idle"]
    /\ promptOut = <<>>
    /\ promptPhase = "idle"

Init ==
    /\ AppInit
    /\ UiIdle
    /\ TitleIdle
    /\ RenderIdle
    /\ PdfIdle
    /\ PromptIdle

Next ==
    \/ handleGenerate
    \/ \E reply \in Replies : ProviderSettles(reply)
    \/ \E v \in Ideas : SetScriptContent(v)
    \/ \E platform \in PlatformChoices : handlePlatformToggle(platform)
    \/ \E key \in ListenChoices : handleListen(key)
    \/ \E kind \in NotifyKinds : UtteranceSettles(kind)
    \/ Notify

Spec == Init /\ [][Next]_vars

TitleInit ==
    /\ AppInit
    /\ UiIdle
    /\ RenderIdle
    /\ PdfIdle
    /\ PromptIdle
    /\ titleKey \in TitleInputs
    /\ titleOut = <<>>
    /\ titlePhase = "in"

TitleNext == ApplyFormatTitle

SpecTitle == TitleInit /\ [][TitleNext]_vars

RenderInit ==
    /\ AppInit
    /\ UiIdle
    /\ TitleIdle
    /\ PdfIdle
    /\ PromptIdle
    /\ renderDoc \in RenderDocs
    /\ renderOut = <<>>
    /\ renderPhase = [op |-> "in"]

RenderNext ==
    \/ ApplyFullText
    \/ ApplyDocx
    \/ \E key \in Range(SchemaKeys) : ApplyCopyText(key)

SpecRender == RenderInit /\ [][RenderNext]_vars

\* new jsPDF() holds one page; textLines has any number of lines up to MaxLines
PdfInit ==
    /\ AppInit
    /\ UiIdle
    /\ TitleIdle
    /\ RenderIdle
    /\ PromptIdle
    /\ pdfLines \in 0..MaxLines
    /\ pdfIndex = 0
    /\ y = CursorStart
    /\ pdfPages = 1
    /\ pdfTrace = [op |-> "start"]

PdfNext ==
    \/ PdfEmitLine
    \/ PdfSave

SpecPdf == PdfInit /\ [][PdfNext]_vars

PromptInit ==
    /\ AppInit
    /\ UiIdle
    /\ TitleIdle
    /\ RenderIdle
    /\ PdfIdle
    /\ promptIn \in PromptInputs
    /\ promptOut = <<>>
    /\ promptPhase = "in"

PromptNext == ApplyBuildPrompt

SpecPrompt == PromptInit /\ [][PromptNext]_vars

\* the component after mount, on a platform with or without navigator.share
UiInit ==
    /\ AppInit
    /\ copiedKey = Null
    /\ copyTimers = 0
    /\ isShareSupported \in BOOLEAN
    /\ sharePending = 0
    /\ voices = <<>>
    /\ selectedVoiceURI = Null
    /\ TitleIdle
    /\ RenderIdle
    /\ PdfIdle
    /\ PromptIdle

\* the replies of the provider: a complete document, a failing call
UiReplies ==
    {Reply("text", ObjectText(SchemaKeys, "Try this!", TRUE), FALSE, Null),
     Reply("throw", <<>>, TRUE, "quota exceeded")}

UiNext ==
    \/ handleGenerate
    \/ \E reply \in UiReplies : ProviderSettles(reply)
    \/ SetScriptContent(<<"a">>)
    \/ handleListen("hook")
    \/ \E kind \in NotifyKinds : UtteranceSettles(kind)
    \/ Notify
    \/ \E key \in CopyChoices : handleCopy(key)
    \/ CopyTimeout
    \/ handleShare
    \/ \E ok \in BOOLEAN : ShareSettles(ok)
    \/ handleExportPdf
    \/ handleExportDocx
    \/ \E avail \in VoiceLists : loadVoices(avail)
    \/ \E uri \in {"de", "us"} : SetSelectedVoice(uri)

SpecUi == UiInit /\ [][UiNext]_vars

----------------------------------------------------------------------------
(* Properties *)

IsReply == lastOp.op = "reply"

\* the last reply carried a non-empty payload text
IsTextReply == IsReply /\ lastOp.reply.kind = "text" /\ lastOp.reply.text # <<>>

\* the last reply's payload parsed to a value other than null
ParsedReply == IsTextReply /\ JSONParse(lastOp.reply.text).ok
                           /\ JSONParse(lastOp.reply.text).value # NullDoc

ParsedValue == JSONParse(lastOp.reply.text).value

\* C1: every exposed document contains all six required keys; a reply that
\* parses but misses one of them leaves no document exposed
C1_ExposedHasAllKeys ==
    /\ DocExposed(generatedSections) =>
          Range(SchemaKeys) \subseteq DocKeys(generatedSections)
    /\ (ParsedReply /\ ~(Range(SchemaKeys) \subseteq DocKeys(ParsedValue))) =>
          (~DocExposed(generatedSections) /\ error # Null)

\* C2: a parsed reply whose hook is the sentinel ends the cycle with the
\* policy-rejection message set and no document exposed, whatever the other
\* fields of the reply hold
C2_PolicyRejection ==
    (ParsedReply /\ HookOf(ParsedValue) = StrVal(Text(Sentinel))) =>
        /\ error = PolicyMsg
        /\ generatedSections = NullDoc
        /\ ~isLoading

C2_Witness ==
    /\ ParsedReply
    /\ HookOf(ParsedValue) = StrVal(Text(Sentinel))
    /\ \E e \in Range(ParsedValue.entries) : e.key = "mainContent" /\ e.val = StrVal(Text("body"))
    /\ error = PolicyMsg
    /\ generatedSections = NullDoc

\* a payload text that is not JSON: neither a scalar nor a brace-delimited
\* list of members
Malformed(text) ==
    /\ text \notin {<<NullTok>>, <<NumTok>>}
    /\ \/ text[1] # LBrace
       \/ text[Len(text)] # RBrace
       \/ Len(text) < 2

\* C3: a non-empty payload that fails to parse ends the cycle with the
\* parse-error message set and no document exposed, and no document is
\* exposed at any point while the cycle is running
C3_ParseError ==
    /\ (IsTextReply /\ Malformed(lastOp.reply.text)) =>
          /\ error = ParseMsg
          /\ generatedSections = NullDoc
          /\ ~isLoading
    /\ isLoading => generatedSections = NullDoc

C3_Witness ==
    /\ IsTextReply
    /\ lastOp.reply.text = TruncatedText(SchemaKeys, "Try this!", TRUE)
    /\ error = ParseMsg
    /\ generatedSections = NullDoc

\* the provider produced no non-empty payload: no reply, no text, empty text
NoPayloadReply ==
    /\ IsReply
    /\ \/ lastOp.reply.kind \in {"noResponse", "noText"}
       \/ lastOp.reply.kind = "text" /\ lastOp.reply.text = <<>>

ThrowReply == IsReply /\ lastOp.reply.kind = "throw"

\* C4 (as claimed): an absent reply, an empty text and a failing provider
\* call are all reported as the safety-filter error and leave no document
C4_AllFailuresSafety ==
    (NoPayloadReply \/ ThrowReply) =>
        (error = SafetyMsg /\ generatedSections = NullDoc)

\* C4 (amended): an absent reply or an empty text is reported as the
\* safety-filter error, ahead of the parse and sentinel checks; a failing
\* provider call is reported with the exception's own message, or with the
\* unknown-error message when the thrown value is not an Error; in each case
\* no document is exposed
C4_SafetyOrException ==
    /\ NoPayloadReply => (error = SafetyMsg /\ generatedSections = NullDoc)
    /\ ThrowReply =>
          /\ error = (IF lastOp.reply.isError THEN lastOp.reply.message ELSE UnknownMsg)
          /\ generatedSections = NullDoc

C4_Witness ==
    /\ IsReply
    /\ lastOp.reply.kind = "text"
    /\ lastOp.reply.text = <<>>
    /\ error = SafetyMsg
    /\ generatedSections = NullDoc

IsListen == lastOp.op = "listen"

\* C5: listen on a key other than the speaking one cancels what was playing
\* and leaves that key speaking with its utterance the only one queued; at
\* most one utterance is ever in the synthesis queue
C5_Supersede ==
    /\ Len(synthQueue) <= 1
    /\ (IsListen /\ lastOp.was # lastOp.key) =>
          /\ speakingKey = lastOp.key
          /\ synthQueue = <<Utterance(lastOp.key)>>

C5_Witness ==
    /\ IsListen
    /\ lastOp.was \in ListenChoices
    /\ lastOp.was # lastOp.key
    /\ events # <<>>
    /\ events[Len(events)].key = lastOp.was
    /\ speakingKey = lastOp.key
    /\ synthQueue = <<Utterance(lastOp.key)>>

\* C6: listen on the key that is already speaking cancels playback and
\* clears the speaking key without starting an utterance, so a listen that
\* started a key followed at once by a listen on the same key leaves nothing
\* speaking and nothing playing
C6_ToggleOff ==
    [][\A k \in ListenChoices :
          (handleListen(k) /\ (speakingKey = k
                               \/ (IsListen /\ lastOp.key = k /\ lastOp.was # k)))
          => (speakingKey' = Null /\ synthQueue' = <<>>)]_vars

C6_Witness ==
    /\ IsListen
    /\ lastOp.was = lastOp.key
    /\ speakingKey = Null
    /\ synthQueue = <<>>

\* C7: a completion or error notification clears the speaking key; the
\* error notification also sets the text-to-speech message, the completion
\* notification leaves the message as it was
C7_Notification ==
    [][Notify =>
          /\ speakingKey' = Null
          /\ Head(events).kind = "error" => error' = TtsMsg
          /\ Head(events).kind = "end" => error' = error]_vars

C7_Witness ==
    /\ lastOp.op = "notify"
    /\ lastOp.kind = "error"
    /\ speakingKey = Null
    /\ error = TtsMsg

WhitespaceOnly(idea) == \A i \in 1..Len(idea) : idea[i] = " "

\* C8: a generate click with a blank idea or no platform selected sends no
\* request, sets a validation message, does not enter loading and leaves the
\* exposed document as it was
C8_InputValidation ==
    [][(handleGenerate /\ (WhitespaceOnly(scriptContent) \/ selectedPlatforms = <<>>))
          => /\ inflight' = inflight
             /\ error' \in {IdeaMsg, PlatformMsg}
             /\ ~isLoading'
             /\ generatedSections' = generatedSections]_vars

C8_Witness ==
    /\ lastOp = [op |-> "generate", sent |-> FALSE]
    /\ scriptContent # <<>>
    /\ error = IdeaMsg
    /\ DocExposed(generatedSections)
    /\ inflight = <<>>

\* C9: whatever the provider boundary did, the cycle has left the loading
\* state when handleGenerate returns and the generate button works again;
\* loading lasts only while a request is awaited
C9_LeavesLoading ==
    /\ IsReply => (~isLoading /\ ENABLED handleGenerate)
    /\ isLoading => inflight # <<>>

C9_Witness ==
    /\ IsReply
    /\ lastOp.reply.kind = "throw"
    /\ ~isLoading

\* the title rule as specified: a space before every capital that is not the
\* first character, then the first character in upper case
RECURSIVE SpaceInternalCapitals(_, _)
SpaceInternalCapitals(s, first) ==
    IF s = <<>> THEN <<>>
    ELSE (IF IsUpper(Head(s)) /\ ~first THEN <<" ", Head(s)>> ELSE <<Head(s)>>)
         \o SpaceInternalCapitals(Tail(s), FALSE)

\* C10: the derived title has a space before every internal capital letter
\* and nowhere else, and its first character in upper case
C10_TitleRule ==
    titlePhase = "out" =>
        titleOut = UpperFirst(SpaceInternalCapitals(titleKey, TRUE))

\* the pattern occurs in the text at the position
StartsAt(out, pos, pat) ==
    /\ pos >= 1
    /\ pos + Len(pat) - 1 <= Len(out)
    /\ SubSeq(out, pos, pos + Len(pat) - 1) = pat

\* how the block of a section must begin: its title on a line of its own,
\* then the whole body of a Text section or the first label of a VisualIdeas one
BlockHead(e) ==
    formatTitle(KeyText(e.key)) \o <<NL>>
    \o (IF e.val.t = "str" THEN e.val.s ELSE Text("Shot Suggestions:") \o <<NL>>)

\* the blocks of sections i, i+1, ... lie in the text from the position on,
\* each separated from the next by a blank line
RECURSIVE BlocksFrom(_, _, _, _)
BlocksFrom(out, es, i, pos) ==
    LET head == BlockHead(es[i])
        last == pos + Len(head) - 1
    IN /\ StartsAt(out, pos, head)
       /\ IF i = Len(es)
          THEN es[i].val.t = "str" => last = Len(out)
          ELSE \E q \in (last + 3)..Len(out) :
                  /\ out[q - 2] = NL
                  /\ out[q - 1] = NL
                  /\ es[i].val.t = "str" => q = last + 3
                  /\ BlocksFrom(out, es, i + 1, q)

NonEmptySection(v) ==
    IF v.t = "str" THEN v.s # <<>>
    ELSE v.shotSuggestions # <<>> \/ v.bRoll # <<>>

\* C11: the whole-document text holds one block per section, in the order of
\* the document's keys, each block separated from the next by a blank line,
\* and it is not empty when some section of the document is not empty
C11_FlattenedOrder ==
    renderPhase.op = "text" =>
        LET es == Entries(renderDoc) IN
        /\ IF es = <<>> THEN renderOut = <<>> ELSE BlocksFrom(renderOut, es, 1, 1)
        /\ (\E i \in 1..Len(es) : NonEmptySection(es[i].val)) => renderOut # <<>>

C11_Witness ==
    /\ renderPhase.op = "text"
    /\ Len(Entries(renderDoc)) = 6
    /\ Entries(renderDoc)[1].key = "hashtags"
    /\ Entries(renderDoc)[1].val = StrVal(<<"one", NL, NL, "two", NL>>)
    /\ StartsAt(renderOut, 1, <<"H", "a", "s", "h", "t", "a", "g", "s", NL, "one">>)

\* one line per item, each item behind a dash
RECURSIVE DashLines(_)
DashLines(items) ==
    IF items = <<>> THEN <<>>
    ELSE <<"-", " ">> \o Head(items)
         \o (IF Len(items) > 1 THEN <<NL>> \o DashLines(Tail(items)) ELSE <<>>)

\* the flattened-text form of a VisualIdeas section
DashForm(v) ==
    Text("Shot Suggestions:") \o <<NL>> \o DashLines(v.shotSuggestions)
    \o <<NL, NL>> \o Text("B-Roll:") \o <<NL>> \o DashLines(v.bRoll)

\* C13: the text of a VisualIdeas section is the two labelled lists with a
\* dash before every item, both in the text the copy button of that section
\* hands to the clipboard and in the section's block of the whole-document text
C13_VisualIdeasForm ==
    /\ (renderPhase.op = "copy" /\ ValueOf(renderDoc, renderPhase.key).t = "vis") =>
          renderOut = DashForm(ValueOf(renderDoc, renderPhase.key))
    /\ (renderPhase.op = "text" /\ "visualIdeas" \in DocKeys(renderDoc)) =>
          \E pos \in 1..Len(renderOut) :
              StartsAt(renderOut, pos,
                       formatTitle(KeyText("visualIdeas")) \o <<NL>>
                       \o DashForm(ValueOf(renderDoc, "visualIdeas")))

LineBreaks(body) == Cardinality({j \in 1..Len(body) : body[j] = NL})

\* the paragraphs at positions from..to are plain ones
PlainRun(out, from, to) == \A j \in from..to : out[j].kind = "text"

\* the paragraphs at positions from+1..from+Len(items) are the bullets of the items
BulletRun(out, from, items) ==
    \A j \in 1..Len(items) : out[from + j] = Para("bullet", items[j])

\* the paragraphs of sections i, i+1, ... fill the output from the position on
RECURSIVE ParasFrom(_, _, _, _)
ParasFrom(out, es, i, pos) ==
    IF i > Len(es) THEN pos = Len(out) + 1
    ELSE LET v == es[i].val
             n == IF v.t = "str" THEN LineBreaks(v.s) + 1
                  ELSE Len(v.shotSuggestions) + Len(v.bRoll) + 2
         IN /\ pos + n + 1 <= Len(out)
            /\ out[pos] = Para("heading", formatTitle(KeyText(es[i].key)))
            /\ IF v.t = "str"
               THEN /\ PlainRun(out, pos + 1, pos + n)
                    /\ Join([j \in 1..n |-> out[pos + j].text], <<NL>>) = v.s
                    /\ \A j \in 1..n : NL \notin Range(out[pos + j].text)
               ELSE /\ out[pos + 1] = Para("label", Text("Shot Suggestions"))
                    /\ BulletRun(out, pos + 1, v.shotSuggestions)
                    /\ out[pos + 2 + Len(v.shotSuggestions)] = Para("label", Text("B-Roll"))
                    /\ BulletRun(out, pos + 2 + Len(v.shotSuggestions), v.bRoll)
            /\ out[pos + n + 1] = Para("text", <<>>)
            /\ ParasFrom(out, es, i + 1, pos + n + 2)

\* the titles of the headings, in the order of the output
Headings(out) ==
    LET hs == SelectSeq(out, LAMBDA para : para.kind = "heading")
    IN [j \in 1..Len(hs) |-> hs[j].text]

\* C15: the word-processing export holds, for each section in the order of
\* the document's keys, a heading with the derived title, then one paragraph
\* per line of a Text body or the two labelled bullet lists of a VisualIdeas
\* section, then a blank paragraph; the headings follow the order in which
\* the flattened text lists the sections
C15_DocxParagraphs ==
    renderPhase.op = "docx" =>
        LET es == Entries(renderDoc) IN
        /\ ParasFrom(renderOut, es, 1, 1)
        /\ Headings(renderOut) = [i \in 1..Len(es) |-> formatTitle(KeyText(es[i].key))]
        /\ es # <<>> => BlocksFrom(getFullScriptText(renderDoc, FALSE), es, 1, 1)

C15_Witness ==
    /\ renderPhase.op = "docx"
    /\ Len(Entries(renderDoc)) = 6
    /\ Entries(renderDoc)[1].key = "hashtags"
    /\ Entries(renderDoc)[1].val = StrVal(<<"one", NL, NL, "two", NL>>)
    /\ Len(Entries(renderDoc)[3].val.shotSuggestions) = 2
    /\ renderOut[2] = Para("text", <<"one">>)
    /\ renderOut[3] = Para("text", <<>>)
    /\ Len(renderOut) > 20

\* the number of lines whose positions, one line height apart from the top
\* margin on, stay within the page less its bottom margin
Capacity == (PageHeight - 2 * Margin) \div LineHeight + 1

\* C12: the export of n wrapped lines has exactly one page when n is at most
\* the number of lines that fit on a page, and more than one page otherwise
C12_OnePageIffFits ==
    pdfTrace.op = "save" =>
        /\ pdfLines <= Capacity => pdfPages = 1
        /\ pdfLines > Capacity => pdfPages > 1

C12_Witness ==
    /\ pdfTrace.op = "save"
    /\ pdfLines = Capacity + 1
    /\ pdfPages = 2

\* C18: the cursor starts at the top margin; every line is written between
\* the top margin and the page height less the margin; the cursor then
\* advances by the line height; a line is written at the top margin of a new
\* page exactly when a page is added, otherwise where the cursor stood
C18_CursorBounds ==
    /\ pdfTrace.op = "start" => y = Margin
    /\ [][pdfTrace'.op = "line" =>
            /\ pdfTrace'.at >= Margin
            /\ pdfTrace'.at <= PageHeight - Margin
            /\ y' = pdfTrace'.at + LineHeight
            /\ \/ pdfPages' = pdfPages + 1 /\ pdfTrace'.at = Margin
               \/ pdfPages' = pdfPages /\ pdfTrace'.at = y]_vars

C18_Witness ==
    /\ pdfTrace = [op |-> "line", at |-> Margin]
    /\ pdfPages = 3
    /\ y = Margin + LineHeight

\* the pattern occurs somewhere in the text
Contains(out, pat) == \E pos \in 1..(Len(out) + 1) : StartsAt(out, pos, pat)

\* the number a text denotes is a whole number above zero: no minus sign, no
\* digit other than zero after the point, and a digit other than zero before it
PositiveInteger(s) ==
    /\ s # <<>>
    /\ \A i \in 1..Len(s) : IsDigit(s[i]) \/ s[i] = "."
    /\ \E i \in 1..Len(s) : /\ IsDigit(s[i]) /\ s[i] # "0"
                            /\ \A j \in 1..i : s[j] # "."
    /\ \A i, j \in 1..Len(s) : (s[i] = "." /\ j > i) => s[j] = "0"

\* C14: the prompt holds the directive "approximately N words" exactly when
\* the word-count value is a positive integer, and always holds the idea and
\* the list of platforms
C14_WordCountDirective ==
    promptPhase = "out" =>
        /\ PositiveInteger(promptIn.wordCount) <=>
              Contains(promptOut, <<"approximately", " ">> \o promptIn.wordCount
                                  \o <<" ", "words">>)
        /\ ~PositiveInteger(promptIn.wordCount) => "approximately" \notin Range(promptOut)
        /\ Contains(promptOut, promptIn.idea)
        /\ Contains(promptOut,
                    Join([i \in 1..Len(promptIn.platforms) |-> Text(promptIn.platforms[i])],
                         <<",", " ">>))

\* C16: at most one generation request awaits the provider; a request
\* awaits only while loading, and while loading no further request can be
\* issued
C16_SingleInFlight ==
    /\ Len(inflight) <= 1
    /\ inflight # <<>> => isLoading
    /\ isLoading => ~ENABLED handleGenerate

C16_Witness ==
    /\ isLoading
    /\ Len(inflight) = 1
    /\ lastOp.op = "generate"
    /\ lastOp.sent

\* the cycle just ended in failure: no payload, a failing call, a payload
\* that is not JSON or is the JSON null, or the policy sentinel in the hook
FailedCycle ==
    \/ NoPayloadReply
    \/ ThrowReply
    \/ IsTextReply /\ Malformed(lastOp.reply.text)
    \/ IsTextReply /\ lastOp.reply.text = <<NullTok>>
    \/ ParsedReply /\ HookOf(ParsedValue) = StrVal(Text(Sentinel))

\* C20: while a request awaits the provider no document is exposed, the
\* document of the previous cycle included; and when a cycle has ended with
\* an error the document slot is empty
C20_NoDocWhileLoading ==
    /\ isLoading => ~DocExposed(generatedSections)
    /\ FailedCycle => (~isLoading /\ ~DocExposed(generatedSections))

C20_Witness ==
    /\ isLoading
    /\ lastOp.op = "generate"
    /\ lastOp.sent
    /\ lastOp.had
    /\ ~DocExposed(generatedSections)

\* the notification of the utterance that last left the queue is on its way
OwnNotificationPending ==
    \E i \in 1..Len(events) : events[i].key = speakingKey

\* C19: whatever the order of listen actions and notifications, the speaking
\* key is that of the utterance in the synthesis queue while there is one and
\* is null otherwise (but for the moment between the end of an utterance and
\* the delivery of its own notification); and a notification delivered while
\* a newer utterance is playing, which can only belong to a cancelled one,
\* changes neither the speaking key nor the error message
C19_SpeakingIffPlaying ==
    /\ [](synthQueue # <<>> => speakingKey = Head(synthQueue).key)
    /\ []((speakingKey # Null /\ synthQueue = <<>>) => OwnNotificationPending)
    /\ [][(lastOp'.op = "notify" /\ synthQueue # <<>>) =>
             (speakingKey' = speakingKey /\ error' = error)]_vars

\* the handlers that may touch the speech state: listen and stop, the engine
\* finishing an utterance, and the delivery of a notification
SpeechOps == {"listen", "engine", "notify"}

\* C17: the speaking key and the playback (the synthesis queue, with the
\* voice of its utterance) change only in listen/stop actions, at the end of
\* an utterance and in its notifications; generating, the provider's reply,
\* copying, the copy timeout, sharing and its outcome, both exports and the
\* voice controls leave both as they were
C17_SpeechFrame ==
    [][/\ (speakingKey' # speakingKey \/ synthQueue' # synthQueue) =>
             lastOp'.op \in SpeechOps
       /\ lastOp'.op \in {"generate", "reply", "copy", "copyTimeout", "share",
                          "shareSettled", "pdf", "docx", "voice", "voices"} =>
             UNCHANGED <<speakingKey, synthQueue>>]_vars

C17_Witness ==
    /\ lastOp = [op |-> "shareSettled", ok |-> FALSE]
    /\ error = ShareMsg
    /\ isLoading
    /\ copiedKey = "visualIdeas"
    /\ speakingKey = "hook"
    /\ synthQueue = <<[key |-> "hook", voice |-> "us"]>>
    /\ selectedVoiceURI = "de"

\* C21: when a generation cycle has just ended (the reply was handled and
\* loading is false again), either a document is exposed and no error
\* message is set, or an error message is set and no document is exposed;
\* also when a share or speech failure was reported during the cycle
C21_DocumentXorError ==
    IsReply =>
        /\ ~isLoading
        /\ \/ DocExposed(generatedSections) /\ error = Null
           \/ ~DocExposed(generatedSections) /\ error # Null

====
